---- MODULE Spec2Model ----
(***************************************************************************)
(* Job orchestration (src/src/trellis2_server.py) and model residency      *)
(* (src/src/trellis2_wrapper.py) of the TRELLIS.2 + Flux server.           *)
(*                                                                         *)
(* One worker thread per job (threading.Thread in _enqueue_job) runs       *)
(* _run_job; every Python statement that reads or writes shared state (the *)
(* JOBS dict, a job dict, the pipeline singleton, the output directory) is *)
(* one step of that worker, so that any interleaving the interpreter can   *)
(* schedule between two statements is a behaviour of the model.            *)
(***************************************************************************)
EXTENDS Integers, Sequences, FiniteSets, TLC

\* ------------------------------------------------------------------ bounds
\* Number of job identifiers the process hands out (uuid4 values).
MaxJobs == 2
\* Number of delete_job handlers that may be between their membership check
\* and their JOBS.pop at the same time.
MaxDeletes == 2

JobIds == 1..MaxJobs

\* ------------------------------------------------------------- program data
MIN_RAM_KEEP_LOADED == 48

\* One GiB counted in KiB, the unit RamTotals is written in (the code divides
\* psutil's byte count by 1024 ** 3; KiB keep the numbers inside TLC's integers).
GiB == 1048576

\* MEMORY_MODE values the environment may hold ("unset" is the absent variable).
EnvModes == {"unset", "auto", "keep_loaded", "swap", "bogus"}
\* psutil.virtual_memory().total, in KiB: around the threshold.
RamTotals == {MIN_RAM_KEEP_LOADED * GiB - 1, MIN_RAM_KEEP_LOADED * GiB,
              MIN_RAM_KEEP_LOADED * GiB + 1}

\* QUALITY_PRESETS: only 'superfast' carries use_compile.
use_compile(quality) == quality = "superfast"

\* Qualities the model submits (fast, balanced and high run the same code path).
TextQualities == {"superfast", "balanced"}
ImageQualities == {"balanced"}

\* Prompts the model submits, as sequences of characters.
Prompts == { <<>>, <<" ">>, <<" ", " ">>, <<"a">>, <<" ", "a">>, <<"a", " ">> }

\* Uploads the model submits: the filename, and the kind of bytes. "truncated"
\* bytes pass Image.verify() and fail Image.load().
Filenames == {"", "a.png"}
ImageBytes == {"empty", "corrupt", "truncated", "valid"}

\* str(exc) of an exception an engine call (flux(...), trellis.run(...)) raises:
\* any string, the empty one included (an AssertionError without a message).
\* Model-load, file and attribute errors carry a message, "error" here.
ExcMessages == {"", "error"}

\* Python's None: for a string-valued slot, and for an object-valued slot.
NoneStr == "<None>"
None == <<>>

VARIABLES
    memory_mode,    \* Trellis2Pipeline.memory_mode
    flux_pipe,      \* Trellis2Pipeline._flux_pipe: None or a handle
    trellis_pipe,   \* Trellis2Pipeline._trellis_pipe: None or a handle
    compiled,       \* Trellis2Pipeline._compiled (getattr default False)
    JOBS,           \* keys of the JOBS dict
    job,            \* the job dicts ever created, by job_id (a deleted job's
                    \* dict lives on as long as its worker holds it)
    order,          \* job_ids in the order _enqueue_job stored them
    pc,             \* position of each job's worker thread
    local,          \* locals of each worker thread
    calls,          \* per running job, the calls its worker made so far to
                    \* _load_* / _unload_* and to the two engines
    dirs,           \* job_ids whose output directory exists
    files,          \* <<job_id, name>> of the files under the output root
    returning,      \* per job_id, submit handlers that started its worker
                    \* and have not returned yet
    returned,       \* job_ids a submit handler has returned
    pendingDel,     \* per job_id, delete_job handlers between check and pop
    resp            \* the response the last step sent, if it ended a request

pipeVars == <<memory_mode, flux_pipe, trellis_pipe, compiled>>
storeVars == <<JOBS, job, order>>
workerVars == <<pc, local, calls>>
fsVars == <<dirs, files>>
apiVars == <<returning, returned, pendingDel>>
vars == <<memory_mode, flux_pipe, trellis_pipe, compiled,
          JOBS, job, order, pc, local, calls, dirs, files, returning,
          returned, pendingDel, resp>>

\* ------------------------------------------------------------ pure helpers
IsSpace(c) == c = " "

RECURSIVE lstrip(_)
lstrip(s) == IF s # <<>> /\ IsSpace(Head(s)) THEN lstrip(Tail(s)) ELSE s

RECURSIVE rstrip(_)
rstrip(s) ==
    IF s # <<>> /\ IsSpace(s[Len(s)]) THEN rstrip(SubSeq(s, 1, Len(s) - 1)) ELSE s

\* str.strip()
strip(s) == rstrip(lstrip(s))

\* Image.open(...).verify() in submit_image: TRUE when it raises nothing.
verify_ok(bytes) == bytes \in {"truncated", "valid"}

\* Image.open(...); image.load() in _run_job: TRUE when it raises nothing.
load_ok(bytes) == bytes = "valid"

\* STAGES.get(stage, stage)
STAGES(stage) ==
    CASE stage = "loading_flux" -> "Loading Flux model"
      [] stage = "generating_image" -> "Generating image"
      [] stage = "unloading_flux" -> "Freeing GPU memory"
      [] stage = "loading_trellis" -> "Loading TRELLIS.2 model"
      [] stage = "generating_mesh" -> "Generating 3D mesh"
      [] stage = "exporting_glb" -> "Exporting GLB"
      [] OTHER -> stage

\* _as_download_path: the path relative to OUTPUT_DIR, behind "download/".
\* A path under OUTPUT_DIR is the tuple of its components.
as_download_path(path) == <<"download">> \o path

\* os.path.join(OUTPUT_DIR, job_id), relative to OUTPUT_DIR.
output_path(job_id) == <<job_id>>

\* Variant of _detect_memory_mode: keep_loaded only above the threshold.
detect_memory_mode_above(env, ramKiB) ==
    LET mode == IF env = "unset" THEN "auto" ELSE env IN
    IF mode \in {"keep_loaded", "swap"} THEN mode
    ELSE IF ramKiB > MIN_RAM_KEEP_LOADED * GiB THEN "keep_loaded" ELSE "swap"

\* _detect_memory_mode: the override when it names a mode, else by total RAM.
detect_memory_mode(env, ramKiB) ==
    LET mode == IF env = "unset" THEN "auto" ELSE env IN
    IF mode \in {"keep_loaded", "swap"} THEN mode
    ELSE IF ramKiB >= MIN_RAM_KEEP_LOADED * GiB THEN "keep_loaded" ELSE "swap"

\* Handles: the object a from_pretrained call returned, with what was done to
\* it since. offload: enable_model_cpu_offload() ran; cuda: .cuda() ran and
\* low_vram was set; compiled: its flow models were replaced by torch.compile.
FluxHandle(offload) == [model |-> "flux", offload |-> offload]
TrellisHandle(cuda, is_compiled) ==
    [model |-> "trellis", cuda |-> cuda, compiled |-> is_compiled]

\* Trellis2Pipeline.__init__ as the module-level call makes it:
\* preload_flux = False (the default), preload_trellis = True.
preload_flux == FALSE
preload_trellis == TRUE

\* ------------------------------------------------------------------- Init
NoResp == [op |-> "none", code |-> 0, job_id |-> 0, input |-> <<>>]

Init ==
    /\ \E env \in EnvModes, ram \in RamTotals :
          memory_mode = detect_memory_mode(env, ram)
    /\ flux_pipe = IF memory_mode = "keep_loaded" /\ preload_flux
                   THEN FluxHandle(TRUE) ELSE None
    /\ trellis_pipe = IF memory_mode = "keep_loaded" /\ preload_trellis
                      THEN TrellisHandle(TRUE, FALSE) ELSE None
    /\ compiled = FALSE
    /\ JOBS = {}
    /\ job = <<>>
    /\ order = <<>>
    /\ pc = [w \in JobIds |-> "idle"]
    /\ local = [w \in JobIds |-> [handle |-> None, exc |-> NoneStr,
                                  image_data |-> NoneStr, timings |-> <<>>]]
    /\ calls = [w \in JobIds |-> <<>>]
    /\ dirs = {}
    /\ files = {}
    /\ returning = [w \in JobIds |-> 0]
    /\ returned = {}
    /\ pendingDel = [w \in JobIds |-> 0]
    /\ resp = NoResp

\* ------------------------------------------------------- worker: helpers
Allocated == DOMAIN job

Step(w, next) == pc' = [pc EXCEPT ![w] = next]

\* An exception leaves the frames of text_to_3d / image_to_3d and reaches the
\* except clause of _run_job (line 155) with str(exc) = msg.
Raise(w, msg) ==
    /\ pc' = [pc EXCEPT ![w] = "exc_status"]
    /\ local' = [local EXCEPT ![w].exc = msg, ![w].handle = None]

\* The thread ends: its locals are gone.
ThreadEnd(w, how) ==
    /\ pc' = [pc EXCEPT ![w] = how]
    /\ local' = [local EXCEPT ![w] = [handle |-> None, exc |-> NoneStr,
                                      image_data |-> NoneStr, timings |-> <<>>]]
    /\ calls' = [calls EXCEPT ![w] = <<>>]

Log(w, name) == calls' = [calls EXCEPT ![w] = Append(@, name)]

\* Variant of the progress write: it goes through the store,
\* JOBS.setdefault(job_id, job)["stage"] = stage, and so puts the key back.
Report_restores(w, at, stage, next) ==
    /\ pc[w] = at
    /\ job' = [job EXCEPT ![w].stage = stage, ![w].stage_description = STAGES(stage)]
    /\ JOBS' = JOBS \cup {w}
    /\ pc' = [pc EXCEPT ![w] = next]
    /\ resp' = NoResp
    /\ UNCHANGED <<pipeVars, order, local, calls, fsVars, apiVars>>

\* Variant of _on_progress: the callback writes the job stored last (a
\* module-level "current job") instead of the job of its own closure.
on_progress_latest(w, stage) ==
    LET t == order[Len(order)] IN
    job' = [job EXCEPT ![t].stage = stage, ![t].stage_description = STAGES(stage)]

\* _on_progress(stage, description) through _report(stage): the worker writes
\* its own job dict (job["stage"], job["stage_description"]).
on_progress(w, stage) ==
    job' = [job EXCEPT ![w].stage = stage, ![w].stage_description = STAGES(stage)]

Report(w, at, stage, next) ==
    /\ pc[w] = at
    /\ on_progress(w, stage)
    /\ Step(w, next)
    /\ resp' = NoResp
    /\ UNCHANGED <<pipeVars, JOBS, order, local, calls, fsVars, apiVars>>

\* ------------------------------------------------------- worker: _run_job
\* line 99: job = JOBS[job_id]; KeyError (outside the try) when the key is gone.
RunJobLookup(w) ==
    /\ pc[w] = "lookup"
    /\ IF w \in JOBS
       THEN Step(w, "set_running") /\ UNCHANGED <<local, calls>>
       ELSE ThreadEnd(w, "crashed")
    /\ resp' = NoResp
    /\ UNCHANGED <<pipeVars, storeVars, fsVars, apiVars>>

\* line 100
RunJobSetRunning(w) ==
    /\ pc[w] = "set_running"
    /\ job' = [job EXCEPT ![w].status = "running"]
    /\ Step(w, "set_starting")
    /\ resp' = NoResp
    /\ UNCHANGED <<pipeVars, JOBS, order, local, calls, fsVars, apiVars>>

\* lines 101-102
RunJobSetStarting(w) ==
    /\ pc[w] = "set_starting"
    /\ job' = [job EXCEPT ![w].stage = "starting",
                          ![w].stage_description = "Starting job"]
    /\ Step(w, "makedirs")
    /\ resp' = NoResp
    /\ UNCHANGED <<pipeVars, JOBS, order, local, calls, fsVars, apiVars>>

\* lines 103-104: os.makedirs(output_path, exist_ok=True), outside the try:
\* an OSError ends the thread.
RunJobMakedirs(w) ==
    /\ pc[w] = "makedirs"
    /\ \E ok \in BOOLEAN :
          IF ok
          THEN /\ dirs' = dirs \cup {w}
               /\ Step(w, IF job[w].type = "text" THEN "tt_makedirs" ELSE "img_open")
               /\ UNCHANGED <<local, calls>>
          ELSE /\ ThreadEnd(w, "crashed")
               /\ UNCHANGED dirs
    /\ resp' = NoResp
    /\ UNCHANGED <<pipeVars, storeVars, files, apiVars>>

\* lines 127-133: Image.open, image.load, convert.
RunJobOpenImage(w) ==
    /\ pc[w] = "img_open"
    /\ IF local[w].image_data # NoneStr /\ load_ok(local[w].image_data)
       THEN /\ Step(w, "i3_makedirs")
            /\ local' = [local EXCEPT ![w].image_data = NoneStr]
       ELSE Raise(w, "error")
    /\ resp' = NoResp
    /\ UNCHANGED <<pipeVars, storeVars, calls, fsVars, apiVars>>

\* ---------------------------------------------------- worker: text_to_3d
\* Variant of the branch at line 403: the image model is released whatever
\* the memory mode.
swap_before_trellis_always == TRUE

\* text_to_3d line 388 and line 403: if self.memory_mode == 'swap'.
swap_before_flux == memory_mode = "swap"
swap_before_trellis == memory_mode = "swap"

\* line 380: os.makedirs(output_dir, exist_ok=True); then lines 388-389.
TextMakedirs(w) ==
    /\ pc[w] = "tt_makedirs"
    /\ \E ok \in BOOLEAN :
          IF ok
          THEN /\ dirs' = dirs \cup {w}
               /\ Step(w, IF swap_before_flux THEN "tt_unload_trellis"
                          ELSE "report_loading_flux")
               /\ UNCHANGED local
          ELSE /\ Raise(w, "error")
               /\ UNCHANGED dirs
    /\ resp' = NoResp
    /\ UNCHANGED <<pipeVars, storeVars, calls, files, apiVars>>

\* Variant of _unload_trellis: the call returns and the model stays resident.
unload_trellis_skipped == UNCHANGED trellis_pipe

\* _unload_trellis (lines 241-248): release the mesh model if it is resident.
unload_trellis == trellis_pipe' = None

\* _unload_flux (lines 215-239): release the image model if it is resident.
unload_flux == flux_pipe' = None

\* line 389
TextUnloadTrellis(w) ==
    /\ pc[w] = "tt_unload_trellis"
    /\ unload_trellis
    /\ Log(w, "_unload_trellis")
    /\ Step(w, "report_loading_flux")
    /\ resp' = NoResp
    /\ UNCHANGED <<memory_mode, flux_pipe, compiled, storeVars, local, fsVars, apiVars>>

\* line 392
TextReportLoadingFlux(w) ==
    Report(w, "report_loading_flux", "loading_flux", "report_generating_image")

\* line 394
TextReportGeneratingImage(w) ==
    Report(w, "report_generating_image", "generating_image", "load_flux")

\* Variant of _load_flux without the test of line 161: every call loads.
LoadFluxCheckAlways(w) ==
    /\ pc[w] = "load_flux"
    /\ Log(w, "_load_flux")
    /\ Step(w, "flux_from_pretrained")
    /\ resp' = NoResp
    /\ UNCHANGED <<pipeVars, storeVars, local, fsVars, apiVars>>

\* _load_flux, line 161: if self._flux_pipe is None.
LoadFluxCheck(w) ==
    /\ pc[w] = "load_flux"
    /\ Log(w, "_load_flux")
    /\ Step(w, IF flux_pipe = None THEN "flux_from_pretrained" ELSE "flux_return")
    /\ resp' = NoResp
    /\ UNCHANGED <<pipeVars, storeVars, local, fsVars, apiVars>>

\* lines 163-166: self._flux_pipe = Flux2KleinPipeline.from_pretrained(...)
LoadFluxFromPretrained(w) ==
    /\ pc[w] = "flux_from_pretrained"
    /\ \E ok \in BOOLEAN :
          IF ok
          THEN /\ flux_pipe' = FluxHandle(FALSE)
               /\ Step(w, "flux_offload")
               /\ UNCHANGED local
          ELSE /\ Raise(w, "error")
               /\ UNCHANGED flux_pipe
    /\ resp' = NoResp
    /\ UNCHANGED <<memory_mode, trellis_pipe, compiled, storeVars, calls, fsVars,
                   apiVars>>

\* line 167: self._flux_pipe.enable_model_cpu_offload(); the attribute is read
\* again, so it is None when another worker released the model meanwhile.
LoadFluxOffload(w) ==
    /\ pc[w] = "flux_offload"
    /\ \E ok \in BOOLEAN :
          IF flux_pipe # None /\ ok
          THEN /\ flux_pipe' = [flux_pipe EXCEPT !.offload = TRUE]
               /\ Step(w, "flux_return")
               /\ UNCHANGED local
          ELSE /\ Raise(w, "error")
               /\ UNCHANGED flux_pipe
    /\ resp' = NoResp
    /\ UNCHANGED <<memory_mode, trellis_pipe, compiled, storeVars, calls, fsVars,
                   apiVars>>

\* line 169: return self._flux_pipe; generate_image line 259: flux = ...
LoadFluxReturn(w) ==
    /\ pc[w] = "flux_return"
    /\ local' = [local EXCEPT ![w].handle = flux_pipe]
    /\ Step(w, "flux_call")
    /\ resp' = NoResp
    /\ UNCHANGED <<pipeVars, storeVars, calls, fsVars, apiVars>>

\* generate_image lines 261-268: image = flux(...).images[0]; text_to_3d
\* line 396: timings['flux_generate'].
GenerateImage(w) ==
    /\ pc[w] = "flux_call"
    /\ \E ok \in BOOLEAN, msg \in ExcMessages :
          IF local[w].handle = None
          THEN /\ Raise(w, "error")
               /\ UNCHANGED calls
          ELSE IF ok
          THEN /\ Log(w, "flux")
               /\ local' = [local EXCEPT ![w].handle = None,
                                         ![w].timings = Append(@, "flux_generate")]
               /\ Step(w, "image_save")
          ELSE /\ Log(w, "flux")
               /\ Raise(w, msg)
    /\ resp' = NoResp
    /\ UNCHANGED <<pipeVars, storeVars, fsVars, apiVars>>

\* lines 399-400: image.save(image_path); the directory must still exist.
TextSaveImage(w) ==
    /\ pc[w] = "image_save"
    /\ \E ok \in BOOLEAN :
          IF w \notin dirs
          THEN /\ Raise(w, "error")
               /\ UNCHANGED files
          ELSE IF ok
          THEN /\ files' = files \cup {<<w, "model_image.png">>}
               /\ Step(w, IF swap_before_trellis THEN "report_unloading_flux"
                          ELSE "i3_makedirs")
               /\ UNCHANGED local
          ELSE /\ Raise(w, "error")
               /\ UNCHANGED files
    /\ resp' = NoResp
    /\ UNCHANGED <<pipeVars, storeVars, calls, dirs, apiVars>>

\* line 404
TextReportUnloadingFlux(w) ==
    Report(w, "report_unloading_flux", "unloading_flux", "tt_unload_flux")

\* line 405
TextUnloadFlux(w) ==
    /\ pc[w] = "tt_unload_flux"
    /\ unload_flux
    /\ Log(w, "_unload_flux")
    /\ Step(w, "i3_makedirs")
    /\ resp' = NoResp
    /\ UNCHANGED <<memory_mode, trellis_pipe, compiled, storeVars, local, fsVars, apiVars>>

\* --------------------------------------------------- worker: image_to_3d
\* line 282: os.makedirs(output_dir, exist_ok=True)
ImageMakedirs(w) ==
    /\ pc[w] = "i3_makedirs"
    /\ \E ok \in BOOLEAN :
          IF ok
          THEN /\ dirs' = dirs \cup {w}
               /\ Step(w, "report_loading_trellis")
               /\ UNCHANGED local
          ELSE /\ Raise(w, "error")
               /\ UNCHANGED dirs
    /\ resp' = NoResp
    /\ UNCHANGED <<pipeVars, storeVars, calls, files, apiVars>>

\* Variant of image_to_3d: under swap it releases the image model before it
\* loads the mesh model.
ImageReportReleasesFlux(w) ==
    /\ pc[w] = "report_loading_trellis"
    /\ on_progress(w, "loading_trellis")
    /\ flux_pipe' = IF memory_mode = "swap" THEN None ELSE flux_pipe
    /\ Step(w, "load_trellis")
    /\ resp' = NoResp
    /\ UNCHANGED <<memory_mode, trellis_pipe, compiled, JOBS, order, local,
                   calls, fsVars, apiVars>>

\* line 291
ImageReportLoadingTrellis(w) ==
    Report(w, "report_loading_trellis", "loading_trellis", "load_trellis")

\* _load_trellis, line 173: if self._trellis_pipe is None.
LoadTrellisCheck(w) ==
    /\ pc[w] = "load_trellis"
    /\ Log(w, "_load_trellis")
    /\ Step(w, IF trellis_pipe = None THEN "trellis_from_pretrained"
               ELSE "compile_check")
    /\ resp' = NoResp
    /\ UNCHANGED <<pipeVars, storeVars, local, fsVars, apiVars>>

\* lines 187-189: self._trellis_pipe = Trellis2ImageTo3DPipeline.from_pretrained(...)
LoadTrellisFromPretrained(w) ==
    /\ pc[w] = "trellis_from_pretrained"
    /\ \E ok \in BOOLEAN :
          IF ok
          THEN /\ trellis_pipe' = TrellisHandle(FALSE, FALSE)
               /\ Step(w, "trellis_cuda")
               /\ UNCHANGED local
          ELSE /\ Raise(w, "error")
               /\ UNCHANGED trellis_pipe
    /\ resp' = NoResp
    /\ UNCHANGED <<memory_mode, flux_pipe, compiled, storeVars, calls, fsVars,
                   apiVars>>

\* lines 190-191: self._trellis_pipe.cuda(); self._trellis_pipe.low_vram = True
LoadTrellisCuda(w) ==
    /\ pc[w] = "trellis_cuda"
    /\ \E ok \in BOOLEAN :
          IF trellis_pipe # None /\ ok
          THEN /\ trellis_pipe' = [trellis_pipe EXCEPT !.cuda = TRUE]
               /\ Step(w, "compile_check")
               /\ UNCHANGED local
          ELSE /\ Raise(w, "error")
               /\ UNCHANGED trellis_pipe
    /\ resp' = NoResp
    /\ UNCHANGED <<memory_mode, flux_pipe, compiled, storeVars, calls, fsVars,
                   apiVars>>

\* line 195: if use_compile and not getattr(self, '_compiled', False)
LoadTrellisCompileCheck(w) ==
    /\ pc[w] = "compile_check"
    /\ Step(w, IF use_compile(job[w].quality) /\ ~compiled THEN "compile"
               ELSE "trellis_return")
    /\ resp' = NoResp
    /\ UNCHANGED <<pipeVars, storeVars, local, calls, fsVars, apiVars>>

\* lines 196-207: torch.compile replaces the flow models of self._trellis_pipe
\* (an AttributeError when another worker released the model meanwhile); any
\* exception is caught and only printed (lines 210-211).
LoadTrellisCompile(w) ==
    /\ pc[w] = "compile"
    /\ \E ok \in BOOLEAN :
          IF trellis_pipe # None /\ ok
          THEN /\ trellis_pipe' = [trellis_pipe EXCEPT !.compiled = TRUE]
               /\ Step(w, "set_compiled")
          ELSE /\ UNCHANGED trellis_pipe
               /\ Step(w, "trellis_return")
    /\ resp' = NoResp
    /\ UNCHANGED <<memory_mode, flux_pipe, compiled, storeVars, local, calls,
                   fsVars, apiVars>>

\* line 208: self._compiled = True
LoadTrellisSetCompiled(w) ==
    /\ pc[w] = "set_compiled"
    /\ compiled' = TRUE
    /\ Step(w, "trellis_return")
    /\ resp' = NoResp
    /\ UNCHANGED <<memory_mode, flux_pipe, trellis_pipe, storeVars, local, calls,
                   fsVars, apiVars>>

\* line 213: return self._trellis_pipe; image_to_3d lines 294-295.
LoadTrellisReturn(w) ==
    /\ pc[w] = "trellis_return"
    /\ local' = [local EXCEPT ![w].handle = trellis_pipe,
                              ![w].timings = Append(@, "trellis_load")]
    /\ Step(w, "report_generating_mesh")
    /\ resp' = NoResp
    /\ UNCHANGED <<pipeVars, storeVars, calls, fsVars, apiVars>>

\* line 317
ImageReportGeneratingMesh(w) ==
    Report(w, "report_generating_mesh", "generating_mesh", "trellis_run")

\* lines 319-327: mesh = trellis.run(...)[0]
GenerateMesh(w) ==
    /\ pc[w] = "trellis_run"
    /\ \E ok \in BOOLEAN, msg \in ExcMessages :
          IF local[w].handle = None
          THEN /\ Raise(w, "error")
               /\ UNCHANGED calls
          ELSE IF ok
          THEN /\ Log(w, "trellis.run")
               /\ local' = [local EXCEPT ![w].handle = None,
                                         ![w].timings = Append(@, "trellis_generate")]
               /\ Step(w, "report_exporting_glb")
          ELSE /\ Log(w, "trellis.run")
               /\ Raise(w, msg)
    /\ resp' = NoResp
    /\ UNCHANGED <<pipeVars, storeVars, fsVars, apiVars>>

\* line 330
ImageReportExportingGlb(w) ==
    Report(w, "report_exporting_glb", "exporting_glb", "export_glb")

\* lines 332-350: to_glb(...); glb.export(glb_path); the directory must still
\* exist. Lines 417-419 (text_to_3d) only touch the returned value.
ExportGlb(w) ==
    /\ pc[w] = "export_glb"
    /\ \E ok \in BOOLEAN :
          IF ok /\ w \in dirs
          THEN /\ files' = files \cup {<<w, "model.glb">>}
               /\ local' = [local EXCEPT ![w].timings = Append(@, "export_glb")]
               /\ Step(w, "set_result")
          ELSE /\ Raise(w, "error")
               /\ UNCHANGED files
    /\ resp' = NoResp
    /\ UNCHANGED <<pipeVars, storeVars, calls, dirs, apiVars>>

\* ----------------------------------------- worker: _run_job, the outcome
\* InferenceResult.glb_path and .image_path, relative to OUTPUT_DIR.
glb_path(w) == output_path(w) \o <<"model.glb">>
image_path(w) == output_path(w) \o <<"model_image.png">>

\* Variant of the result dict: the GLB only, whatever the job type.
ResultOf_glb_only(w, type) ==
    [glb |-> as_download_path(glb_path(w))]

\* lines 120-123 and 143-145: the result dict of a text and of an image job.
ResultOf(w, type) ==
    IF type = "text"
    THEN [glb |-> as_download_path(glb_path(w)),
          image |-> as_download_path(image_path(w))]
    ELSE [glb |-> as_download_path(glb_path(w))]

\* lines 120-123 / 143-145
RunJobSetResult(w) ==
    /\ pc[w] = "set_result"
    /\ job' = [job EXCEPT ![w].result = ResultOf(w, job[w].type)]
    /\ Step(w, "set_timings")
    /\ resp' = NoResp
    /\ UNCHANGED <<pipeVars, JOBS, order, local, calls, fsVars, apiVars>>

\* line 124 / 146
RunJobSetTimings(w) ==
    /\ pc[w] = "set_timings"
    /\ job' = [job EXCEPT ![w].timings = local[w].timings]
    /\ Step(w, "set_done")
    /\ resp' = NoResp
    /\ UNCHANGED <<pipeVars, JOBS, order, local, calls, fsVars, apiVars>>

\* line 151
RunJobSetDone(w) ==
    /\ pc[w] = "set_done"
    /\ job' = [job EXCEPT ![w].status = "done"]
    /\ Step(w, "set_complete")
    /\ resp' = NoResp
    /\ UNCHANGED <<pipeVars, JOBS, order, local, calls, fsVars, apiVars>>

\* Variant of lines 152-153: the write after status = "done" raises inside the
\* try, and the except clause runs.
RunJobSetCompleteRaises(w) ==
    /\ pc[w] = "set_complete"
    /\ Raise(w, "error")
    /\ resp' = NoResp
    /\ UNCHANGED <<pipeVars, storeVars, calls, fsVars, apiVars>>

\* lines 152-153, then the thread returns.
RunJobSetComplete(w) ==
    /\ pc[w] = "set_complete"
    /\ job' = [job EXCEPT ![w].stage = "complete",
                          ![w].stage_description = "Complete"]
    /\ ThreadEnd(w, "finished")
    /\ resp' = NoResp
    /\ UNCHANGED <<pipeVars, JOBS, order, fsVars, apiVars>>

\* line 156
RunJobSetFailed(w) ==
    /\ pc[w] = "exc_status"
    /\ job' = [job EXCEPT ![w].status = "failed"]
    /\ Step(w, "exc_stage")
    /\ resp' = NoResp
    /\ UNCHANGED <<pipeVars, JOBS, order, local, calls, fsVars, apiVars>>

\* line 157
RunJobSetErrorStage(w) ==
    /\ pc[w] = "exc_stage"
    /\ job' = [job EXCEPT ![w].stage = "error"]
    /\ Step(w, "exc_error")
    /\ resp' = NoResp
    /\ UNCHANGED <<pipeVars, JOBS, order, local, calls, fsVars, apiVars>>

\* lines 158-160: job["error"] = str(exc), then the thread returns.
RunJobSetError(w) ==
    /\ pc[w] = "exc_error"
    /\ job' = [job EXCEPT ![w].error = local[w].exc]
    /\ ThreadEnd(w, "finished")
    /\ resp' = NoResp
    /\ UNCHANGED <<pipeVars, JOBS, order, fsVars, apiVars>>

\* ------------------------------------------------------ request handlers
Response(op, code, job_id, input) ==
    [op |-> op, code |-> code, job_id |-> job_id, input |-> input]

\* Variant of uuid4: any identifier, one the process produced before included.
uuid4_reused(used) == JobIds

\* str(uuid.uuid4()): an identifier the process has not produced before.
uuid4(used) == JobIds \ used

\* The dict submit_text / submit_image hands to _enqueue_job, with the job_id
\* line 166 adds. Keys the handler does not set are absent (None here): stage,
\* stage_description, result, timings, error.
Payload(job_id, type, prompt, filename, quality) ==
    [job_id |-> job_id, type |-> type, prompt |-> prompt, filename |-> filename,
     quality |-> quality, status |-> "queued", stage |-> NoneStr,
     stage_description |-> NoneStr, result |-> None, timings |-> None,
     error |-> NoneStr]

\* Variant of _enqueue_job: the handler takes a lock the running workers hold
\* (or joins the thread), so it goes on only when no worker runs.
enqueue_job_serial(job_id, payload, image_data) ==
    /\ \A w \in JobIds : pc[w] \in {"idle", "finished", "crashed"}
    /\ JOBS' = JOBS \cup {job_id}
    /\ job' = (job_id :> payload) @@ job
    /\ order' = Append(order, job_id)
    /\ pc' = [pc EXCEPT ![job_id] = "lookup"]
    /\ local' = [local EXCEPT ![job_id].image_data = image_data]

\* _enqueue_job lines 165-168: store the payload, start the worker thread.
enqueue_job(job_id, payload, image_data) ==
    /\ JOBS' = JOBS \cup {job_id}
    /\ job' = (job_id :> payload) @@ job
    /\ order' = Append(order, job_id)
    /\ pc' = [pc EXCEPT ![job_id] = "lookup"]
    /\ local' = [local EXCEPT ![job_id].image_data = image_data]

\* The handlers take requests while the process has identifiers left to give.
CanSubmit == Cardinality(Allocated) < MaxJobs

\* submit_text lines 190-200, up to the start of the worker.
SubmitText(prompt, quality) ==
    /\ CanSubmit
    /\ IF strip(prompt) = <<>>
       THEN /\ resp' = Response("submit_text", 400, 0, prompt)
            /\ UNCHANGED <<storeVars, pc, local, returning>>
       ELSE /\ \E job_id \in uuid4(Allocated) :
                  enqueue_job(job_id,
                              Payload(job_id, "text", strip(prompt), NoneStr, quality),
                              NoneStr)
                  /\ returning' = [returning EXCEPT ![job_id] = @ + 1]
            /\ resp' = NoResp
    /\ UNCHANGED <<pipeVars, calls, fsVars, returned, pendingDel>>

\* submit_image lines 216-239, up to the start of the worker.
SubmitImage(filename, bytes, quality) ==
    /\ CanSubmit
    /\ IF filename = "" \/ bytes = "empty" \/ ~verify_ok(bytes)
       THEN /\ resp' = Response("submit_image", 400, 0, <<filename, bytes>>)
            /\ UNCHANGED <<storeVars, pc, local, returning>>
       ELSE /\ \E job_id \in uuid4(Allocated) :
                  enqueue_job(job_id,
                              Payload(job_id, "image", NoneStr, filename, quality),
                              bytes)
                  /\ returning' = [returning EXCEPT ![job_id] = @ + 1]
            /\ resp' = NoResp
    /\ UNCHANGED <<pipeVars, calls, fsVars, returned, pendingDel>>

\* _enqueue_job line 169 and submit_* lines 201 / 240: the handler returns
\* {"job_id": job_id, "status": "queued"} some time after Thread.start().
SubmitReturn(job_id) ==
    /\ returning[job_id] > 0
    /\ returning' = [returning EXCEPT ![job_id] = @ - 1]
    /\ returned' = returned \cup {job_id}
    /\ resp' = Response(IF job[job_id].type = "text" THEN "submit_text"
                        ELSE "submit_image", 200, job_id, <<>>)
    /\ UNCHANGED <<pipeVars, storeVars, workerVars, fsVars, pendingDel>>

\* get_status lines 251-254: the response to GET /status/{job_id}.
get_status(job_id) ==
    IF job_id \notin JOBS
    THEN [code |-> 404, body |-> None]
    ELSE [code |-> 200, body |-> job[job_id]]

\* Variant of get_result without the test of line 267.
get_result_any(job_id) ==
    IF job_id \notin JOBS
    THEN [code |-> 404, body |-> None]
    ELSE [code |-> 200, body |-> [result |-> job[job_id].result,
                                  timings |-> job[job_id].timings]]

\* get_result lines 264-276: the response to GET /result/{job_id}.
get_result(job_id) ==
    IF job_id \notin JOBS
    THEN [code |-> 404, body |-> None]
    ELSE IF job[job_id].status # "done"
    THEN [code |-> 202, body |-> [error |-> "job not ready",
                                  status |-> job[job_id].status]]
    ELSE [code |-> 200, body |-> [result |-> job[job_id].result,
                                  timings |-> job[job_id].timings]]

\* seq[:limit] of Python: the first limit elements, all but the last -limit
\* ones when limit is negative.
Slice(seq, limit) ==
    IF limit >= 0
    THEN SubSeq(seq, 1, IF limit < Len(seq) THEN limit ELSE Len(seq))
    ELSE SubSeq(seq, 1, Len(seq) + limit)

\* sorted(ids, reverse=True): the identifiers from the largest down.
RECURSIVE SortedDesc(_)
SortedDesc(S) ==
    IF S = {} THEN <<>>
    ELSE LET m == CHOOSE x \in S : \A y \in S : y <= x
         IN <<m>> \o SortedDesc(S \ {m})

\* list_jobs lines 285-290: the job_ids of the jobs listed, in the order
\* listed; status = NoneStr is the absent filter.
list_jobs(status, limit) ==
    LET kept == IF status # NoneStr /\ status # ""
                THEN {w \in JOBS : job[w].status = status} ELSE JOBS
    IN Slice(SortedDesc(kept), limit)

\* JOBS.pop(job_id)
pop(store, job_id) == store \ {job_id}

\* shutil.rmtree(output_path, ignore_errors=True)
rmtree(tree, job_id) == {f \in tree : f[1] # job_id}

PendingDeletes == {w \in JobIds : pendingDel[w] > 0}

RECURSIVE SumPending(_)
SumPending(S) ==
    IF S = {} THEN 0
    ELSE LET w == CHOOSE x \in S : TRUE IN pendingDel[w] + SumPending(S \ {w})

\* Variant of delete_job: the output directory is removed before the test of
\* line 318.
DeleteCheckRemovesFirst(job_id) ==
    /\ SumPending(JobIds) < MaxDeletes
    /\ dirs' = dirs \ {job_id}
    /\ files' = rmtree(files, job_id)
    /\ IF job_id \notin JOBS
       THEN /\ resp' = Response("delete", 404, job_id, <<>>)
            /\ UNCHANGED pendingDel
       ELSE /\ pendingDel' = [pendingDel EXCEPT ![job_id] = @ + 1]
            /\ resp' = NoResp
    /\ UNCHANGED <<pipeVars, storeVars, workerVars, returning, returned>>

\* delete_job lines 318-319: if job_id not in JOBS: 404.
DeleteCheck(job_id) ==
    /\ SumPending(JobIds) < MaxDeletes
    /\ IF job_id \notin JOBS
       THEN /\ resp' = Response("delete", 404, job_id, <<>>)
            /\ UNCHANGED pendingDel
       ELSE /\ pendingDel' = [pendingDel EXCEPT ![job_id] = @ + 1]
            /\ resp' = NoResp
    /\ UNCHANGED <<pipeVars, storeVars, workerVars, fsVars, returning, returned>>

\* delete_job lines 321-329: JOBS.pop(job_id) (KeyError when another handler
\* popped it first: an unhandled error, answered 500), rmtree, {"deleted": id}.
DeletePop(job_id) ==
    /\ pendingDel[job_id] > 0
    /\ pendingDel' = [pendingDel EXCEPT ![job_id] = @ - 1]
    /\ IF job_id \in JOBS
       THEN /\ JOBS' = pop(JOBS, job_id)
            /\ dirs' = dirs \ {job_id}
            /\ files' = rmtree(files, job_id)
            /\ resp' = Response("delete", 200, job_id, <<>>)
       ELSE /\ resp' = Response("delete", 500, job_id, <<>>)
            /\ UNCHANGED <<JOBS, fsVars>>
    /\ UNCHANGED <<pipeVars, job, order, workerVars, returning, returned>>

\* The job_id path parameter of /download: an identifier of the process, or
\* "..", which the route accepts like any other string without a "/".
UrlJobIds == {ToString(w) : w \in JobIds} \cup {".."}

\* The filename a client asks /download for, as the parts its "/" separate
\* ("model.glb/" is <<"model.glb", "">>).
DownloadNames ==
    { <<"model.glb">>, <<"..", "model.glb">>, <<"..">>, <<".">>,
      <<"model.glb", "">>, <<"..", "..", "secret">> }

\* os.path.basename: what follows the last "/".
basename(name) == name[Len(name)]

\* download_file line 303: os.path.join(OUTPUT_DIR, job_id, safe_filename),
\* as the components below OUTPUT_DIR.
download_path(job_id, filename) == <<job_id, basename(filename)>>

\* The file a path below OUTPUT_DIR names to the operating system: "" and "."
\* name the directory they are in, ".." its parent. up counts the levels
\* above OUTPUT_DIR the path has climbed, path is what follows from there.
RECURSIVE resolve(_, _)
resolve(path, at) ==
    IF path = <<>> THEN at
    ELSE LET c == Head(path) IN
         resolve(Tail(path),
                 IF c \in {"", "."} THEN at
                 ELSE IF c = ".."
                 THEN IF at.path = <<>> THEN [at EXCEPT !.up = @ + 1]
                      ELSE [at EXCEPT !.path = SubSeq(@, 1, Len(@) - 1)]
                 ELSE [at EXCEPT !.path = Append(@, c)])

realpath(path) == resolve(path, [up |-> 0, path |-> <<>>])

\* What is at a path below OUTPUT_DIR: OUTPUT_DIR itself and a job's output
\* directory are directories, model.glb and model_image.png are files.
kind_of(path) ==
    LET r == realpath(path) IN
    IF Len(r.path) = 0 THEN "dir"
    ELSE IF Len(r.path) = 1
    THEN IF \E w \in dirs : ToString(w) = r.path[1] THEN "dir" ELSE "absent"
    ELSE IF Len(r.path) = 2
    THEN IF \E f \in files : ToString(f[1]) = r.path[1] /\ f[2] = r.path[2]
         THEN "file" ELSE "absent"
    ELSE "absent"

\* download_file lines 301-312: 404 when nothing is at the path, the file when
\* it is one; FileResponse fails on a directory (500). What lies above
\* OUTPUT_DIR is not the program's: anything may be there.
DownloadFile(job_id, filename) ==
    /\ \E outside \in {"absent", "file", "dir"} :
          LET file_path == download_path(job_id, filename)
              kind == IF realpath(file_path).up > 0 THEN outside
                      ELSE kind_of(file_path)
          IN resp' = Response("download",
                              CASE kind = "absent" -> 404
                                [] kind = "file" -> 200
                                [] OTHER -> 500,
                              0, <<job_id, filename>>)
    /\ UNCHANGED <<pipeVars, storeVars, workerVars, fsVars, apiVars>>

\* ------------------------------------------------------------------- Next
Worker(w) ==
    \/ RunJobLookup(w)
    \/ RunJobSetRunning(w)
    \/ RunJobSetStarting(w)
    \/ RunJobMakedirs(w)
    \/ RunJobOpenImage(w)
    \/ TextMakedirs(w)
    \/ TextUnloadTrellis(w)
    \/ TextReportLoadingFlux(w)
    \/ TextReportGeneratingImage(w)
    \/ LoadFluxCheck(w)
    \/ LoadFluxFromPretrained(w)
    \/ LoadFluxOffload(w)
    \/ LoadFluxReturn(w)
    \/ GenerateImage(w)
    \/ TextSaveImage(w)
    \/ TextReportUnloadingFlux(w)
    \/ TextUnloadFlux(w)
    \/ ImageMakedirs(w)
    \/ ImageReportLoadingTrellis(w)
    \/ LoadTrellisCheck(w)
    \/ LoadTrellisFromPretrained(w)
    \/ LoadTrellisCuda(w)
    \/ LoadTrellisCompileCheck(w)
    \/ LoadTrellisCompile(w)
    \/ LoadTrellisSetCompiled(w)
    \/ LoadTrellisReturn(w)
    \/ ImageReportGeneratingMesh(w)
    \/ GenerateMesh(w)
    \/ ImageReportExportingGlb(w)
    \/ ExportGlb(w)
    \/ RunJobSetResult(w)
    \/ RunJobSetTimings(w)
    \/ RunJobSetDone(w)
    \/ RunJobSetComplete(w)
    \/ RunJobSetFailed(w)
    \/ RunJobSetErrorStage(w)
    \/ RunJobSetError(w)

\* Workers that were started and have not ended.
Active == {w \in JobIds : pc[w] \notin {"idle", "finished", "crashed"}}

Submit ==
    \/ \E prompt \in Prompts, quality \in TextQualities : SubmitText(prompt, quality)
    \/ \E filename \in Filenames, bytes \in ImageBytes, quality \in ImageQualities :
          SubmitImage(filename, bytes, quality)

Delete ==
    \/ \E job_id \in JobIds : DeleteCheck(job_id)
    \/ \E job_id \in JobIds : DeletePop(job_id)

\* uuid4 values carry no order; the workers treat every identifier alike, so
\* the runs in which the identifiers happen to come out in increasing order
\* stand for all runs of the workers.
IdsAscending == \A i \in 1..Len(order) : order[i] = i

\* Clients submit text and image jobs at any time: every job's worker runs
\* concurrently with every other's.
Next ==
    \/ Submit /\ IdsAscending'
    \/ \E w \in JobIds : Worker(w)

Spec == Init /\ [][Next]_vars

\* Clients submit a job only when no worker is running, and see the response.
NextSeq ==
    \/ Active = {} /\ Submit
    \/ \E job_id \in JobIds : SubmitReturn(job_id)
    \/ \E w \in JobIds : Worker(w)

SpecSeq == Init /\ [][NextSeq]_vars

\* Clients submit one job and send delete requests for it at any time.
NextStore ==
    \/ Allocated = {} /\ Submit
    \/ \E job_id \in JobIds : SubmitReturn(job_id)
    \/ Delete
    \/ \E w \in JobIds : Worker(w)

SpecStore == Init /\ [][NextStore]_vars

Download ==
    \E job_id \in UrlJobIds, filename \in DownloadNames :
       DownloadFile(job_id, filename)

\* Clients submit one job and ask for downloads at any time.
NextFiles ==
    \/ Allocated = {} /\ Submit
    \/ Download
    \/ \E w \in JobIds : Worker(w)

SpecFiles == Init /\ [][NextFiles]_vars

\* The interpreter schedules every thread that can run: a worker that has a
\* next statement executes it sooner or later, and every engine, load and
\* file call returns or raises.
SpecLive == Spec /\ \A w \in JobIds : WF_vars(Worker(w))

\* ----------------------------------------------------------------- claims
BothResident == flux_pipe # None /\ trellis_pipe # None

\* C1: under the swap policy the image model and the mesh model are never
\* both resident, whatever the interleaving of the workers.
C1_SwapNeverBothResident == memory_mode = "swap" => ~BothResident

\* The residency calls and engine calls of a text job under swap, in order.
SwapCallOrder ==
    <<"_unload_trellis", "_load_flux", "flux", "_unload_flux", "_load_trellis",
      "trellis.run">>

IsPrefix(a, b) == Len(a) <= Len(b) /\ a = SubSeq(b, 1, Len(a))

\* Worker w runs a text job under swap, no other worker is active, and the
\* step is w's.
AloneTextStep(w) ==
    /\ memory_mode = "swap"
    /\ Active = {w}
    /\ job[w].type = "text"
    /\ pc'[w] # pc[w]

\* C2: a text job that is the only job in the system under swap releases the
\* mesh model, loads the image model, generates the image, releases the image
\* model and loads the mesh model, in that order, and none of its steps takes
\* the process from at most one resident model to two.
C2_SoloTextJobSwapOrder ==
    [][\A w \in JobIds :
          AloneTextStep(w) =>
             /\ IsPrefix(calls'[w], SwapCallOrder)
             /\ (~BothResident => ~BothResident')]_vars

\* C2: the text job, alone after an image job that left the mesh model
\* resident, has made the five calls and holds the mesh model only.
C2_Witness ==
    \E w \in JobIds, v \in JobIds :
       /\ memory_mode = "swap"
       /\ pc[v] = "finished" /\ job[v].type = "image" /\ job[v].status = "done"
       /\ Active = {w} /\ job[w].type = "text"
       /\ pc[w] = "report_generating_mesh"
       /\ calls[w] = SubSeq(SwapCallOrder, 1, 5)
       /\ flux_pipe = None /\ trellis_pipe # None

\* C3: under keep_loaded, once the process has started and before any job is
\* dispatched, both models are resident.
C3_KeepLoadedPreloadsBoth ==
    memory_mode = "keep_loaded" /\ Allocated = {} => BothResident

\* C4: under keep_loaded no step of any job releases a model: a model that is
\* resident is resident after every step.
C4_KeepLoadedNeverReleases ==
    [][memory_mode = "keep_loaded" =>
          /\ (flux_pipe # None => flux_pipe' # None)
          /\ (trellis_pipe # None => trellis_pipe' # None)]_vars

\* C4: under keep_loaded a text job ran to its end, past both places where
\* swap would release, and both models are resident.
C4_Witness ==
    \E w \in JobIds :
       /\ memory_mode = "keep_loaded"
       /\ w \in Allocated /\ job[w].type = "text" /\ job[w].status = "done"
       /\ pc[w] = "finished"
       /\ BothResident

StatusMoves == {<<"queued", "running">>, <<"running", "done">>,
                <<"running", "failed">>}

\* C5: a job starts queued, and its status only moves queued -> running ->
\* done or failed; a done or failed job's status never changes.
C5_StatusMonotone ==
    [][/\ \A w \in Allocated :
             job'[w].status # job[w].status =>
                <<job[w].status, job'[w].status>> \in StatusMoves
       /\ \A w \in DOMAIN job' \ Allocated : job'[w].status = "queued"]_vars

\* C5: one job went queued, running, done and another queued, running, failed.
C5_Witness ==
    \E w \in Allocated, v \in Allocated :
       /\ pc[w] = "finished" /\ job[w].status = "done"
       /\ pc[v] = "finished" /\ job[v].status = "failed"

\* C6: a status query that shows a job done shows a result and no error, and
\* one that shows it failed shows a non-empty error and no result, at every
\* point of the worker's writes and for every exception message.
C6_ExactlyOneOfResultError ==
    \A job_id \in JobIds :
       LET r == get_status(job_id) IN
       r.code = 200 =>
          /\ r.body.status = "done" =>
                r.body.result # None /\ r.body.error \in {NoneStr, ""}
          /\ r.body.status = "failed" =>
                r.body.error \notin {NoneStr, ""} /\ r.body.result = None

\* C7: no error escapes a worker: a worker that has stopped did not die of an
\* uncaught exception, and its job is done or failed, not running.
C7_WorkerCatchesEverything ==
    \A w \in Allocated :
       /\ pc[w] # "crashed"
       /\ pc[w] = "finished" => job[w].status \in {"done", "failed"}

\* The step in which a submit handler returns job_id to its client.
ReturnStep(job_id) == returning'[job_id] < returning[job_id]

\* What GET /status/{job_id} shows of the job's status.
StatusSeen(job_id) ==
    LET r == get_status(job_id) IN
    IF r.code = 200 THEN r.body.status ELSE "not_found"

\* C8: the identifier a submission returns differs from every identifier
\* returned before, and a status query at that moment finds the job queued or
\* running.
C8_FreshIdQueuedOrRunning ==
    [][\A job_id \in JobIds :
          ReturnStep(job_id) =>
             /\ job_id \notin returned
             /\ StatusSeen(job_id)' \in {"queued", "running"}]_vars

\* C8, amended: the identifier a submission returns differs from every
\* identifier returned before, and a status query at that moment (no delete
\* having been sent for it) finds the job queued, running, done or failed.
C8_FreshIdAnyStatus ==
    [][\A job_id \in JobIds :
          ReturnStep(job_id) =>
             /\ job_id \notin returned
             /\ StatusSeen(job_id)' \in {"queued", "running", "done", "failed"}]_vars

\* C8: the second submission has just returned its identifier, and its worker
\* has already failed the job.
C8_Witness ==
    /\ resp.code = 200 /\ resp.op \in {"submit_text", "submit_image"}
    /\ returned = JobIds
    /\ job[resp.job_id].status = "failed"

IsBlank(prompt) == \A i \in 1..Len(prompt) : prompt[i] = " "

\* The step answers the request to op with a validation error and no
\* identifier, stores no job and starts no worker.
Rejected(op) ==
    /\ resp'.op = op /\ resp'.code = 400 /\ resp'.job_id = 0
    /\ UNCHANGED <<JOBS, job, order, pc, local, returning>>

\* C9: a text submission whose prompt is empty or only whitespace, and an
\* image submission with no filename, with no bytes or with bytes that do not
\* decode as an image, is rejected: no identifier, no job, no worker.
C9_InvalidSubmissionRejected ==
    [][/\ \A prompt \in Prompts, quality \in TextQualities :
             IsBlank(prompt) /\ SubmitText(prompt, quality)
                => Rejected("submit_text")
       /\ \A filename \in Filenames, bytes \in ImageBytes,
             quality \in ImageQualities :
             /\ filename = "" \/ bytes = "empty" \/ ~load_ok(bytes)
             /\ SubmitImage(filename, bytes, quality)
             => Rejected("submit_image")]_vars

\* The status filters and limits a client lists with (50 is the default
\* limit, 100 the largest the route accepts).
ListStatuses == {NoneStr, "queued", "running", "done", "failed"}
ListLimits == {1, 50, 100}

Listed(job_id) ==
    \E status \in ListStatuses, limit \in ListLimits :
       \E i \in 1..Len(list_jobs(status, limit)) :
          list_jobs(status, limit)[i] = job_id

Gone(job_id) == get_status(job_id).code = 404 /\ ~Listed(job_id)

\* The step in which delete_job answers {"deleted": job_id}.
DeleteReturnsOk(job_id) ==
    /\ pendingDel'[job_id] < pendingDel[job_id]
    /\ resp' = Response("delete", 200, job_id, <<>>)

\* delete_job has answered success for job_id at some earlier step.
Deleted(job_id) == job_id \in Allocated /\ job_id \notin JOBS

\* C10: from the step in which a delete succeeds, a status query for the job
\* answers not-found and no listing contains it, in every later state,
\* whatever its worker writes afterwards.
C10_DeletedStaysGone ==
    [][\A job_id \in JobIds :
          DeleteReturnsOk(job_id) \/ Deleted(job_id) => Gone(job_id)']_vars

\* C10: the job was deleted while its worker ran; the worker went on to write
\* its result and status, and the job is still gone.
C10_Witness ==
    \E job_id \in Allocated :
       /\ job_id \notin JOBS
       /\ pc[job_id] = "finished" /\ job[job_id].status = "done"
       /\ Gone(job_id)

\* C11: once a delete has succeeded for a job, the job's output directory
\* does not exist, and none of its files do, whatever its worker does later.
C11_DeletedDirStaysGone ==
    \A job_id \in JobIds :
       Deleted(job_id) =>
          /\ job_id \notin dirs
          /\ \A f \in files : f[1] # job_id

\* C12: whenever a delete of a job succeeds, before the worker's first
\* statement included, no later step of the job's worker ends in an uncaught
\* exception (an OSError of os.makedirs at line 104, which no delete causes,
\* set aside).
C12_DeleteNeverCrashesWorker ==
    [][\A w \in JobIds :
          Deleted(w) /\ pc[w] # "makedirs" => pc'[w] # "crashed"]_vars

\* The fields of a job dict that describe its progress and outcome.
JobFields(j) ==
    <<j.status, j.stage, j.stage_description, j.result, j.timings, j.error>>

\* C13: a job's worker is started once, when the job is stored, and never
\* again; and every step that changes the job's status, stage,
\* stage_description, result, timings or error is a step of that job's own
\* worker: not of another worker, and not of a request handler.
C13_SingleWriter ==
    [][\A w \in JobIds :
          /\ w \in Allocated /\ JobFields(job'[w]) # JobFields(job[w]) =>
                /\ w \in Active
                /\ pc'[w] # pc[w]
                /\ \A v \in JobIds \ {w} : pc'[v] = pc[v]
                /\ resp' = NoResp
          /\ pc'[w] = "lookup" /\ pc[w] # "lookup" =>
                w \notin Allocated /\ pc[w] = "idle"
          /\ pc[w] # "idle" => pc'[w] # "idle"]_vars

\* C13: two workers run at the same time and each has written the stage of
\* its own job.
C13_Witness ==
    \E w \in JobIds, v \in JobIds :
       /\ w \in Active /\ v \in Active
       /\ job[w].stage = "generating_mesh"
       /\ job[v].stage = "generating_image"

\* Worker w is inside _load_flux / _load_trellis, past the test for None.
InLoadFlux(w) == pc[w] \in {"flux_from_pretrained", "flux_offload", "flux_return"}
InLoadTrellis(w) ==
    pc[w] \in {"trellis_from_pretrained", "trellis_cuda", "compile_check",
               "compile", "set_compiled", "trellis_return"}

\* C14: a call of _load_flux or _load_trellis that finds the model resident
\* (an earlier call loaded it and nothing released it since) does not run
\* from_pretrained again, leaves the attribute as it is, and returns the
\* handle the attribute holds.
C14_LoadIdempotent ==
    [][\A w \in JobIds :
          /\ pc[w] = "load_flux" /\ pc'[w] # pc[w] /\ flux_pipe # None =>
                pc'[w] = "flux_return" /\ flux_pipe' = flux_pipe
          /\ pc[w] = "flux_return" /\ pc'[w] # pc[w] =>
                local'[w].handle = flux_pipe /\ flux_pipe' = flux_pipe
          /\ pc[w] = "load_trellis" /\ pc'[w] # pc[w] /\ trellis_pipe # None =>
                pc'[w] = "compile_check" /\ trellis_pipe' = trellis_pipe
          /\ pc[w] = "trellis_return" /\ pc'[w] # pc[w] =>
                local'[w].handle = trellis_pipe /\ trellis_pipe' = trellis_pipe]_vars

\* C14: under keep_loaded a second text job, after a first one that loaded
\* both models, is about to call the image model with the resident handle.
C14_Witness ==
    \E w \in JobIds, v \in JobIds :
       /\ memory_mode = "keep_loaded"
       /\ pc[v] = "finished" /\ job[v].type = "text" /\ job[v].status = "done"
       /\ pc[w] = "flux_call"
       /\ flux_pipe # None /\ local[w].handle = flux_pipe

\* A handle whose load ran to its end: offload enabled, or moved to the device.
FullyLoaded(handle) ==
    IF handle.model = "flux" THEN handle.offload ELSE handle.cuda

\* C15: a load that fails at one of its steps leaves the model unresident,
\* and no later call of _load_flux / _load_trellis returns a handle whose
\* load did not run to its end.
C15_FailedLoadLeavesUnresident ==
    [][\A w \in JobIds :
          /\ InLoadFlux(w) /\ pc'[w] = "exc_status" => flux_pipe' = None
          /\ InLoadTrellis(w) /\ pc'[w] = "exc_status" => trellis_pipe' = None
          /\ local'[w].handle # None => FullyLoaded(local'[w].handle)]_vars

\* torch.compile has run to its end in this process.
CompileDone == compiled \/ \E v \in JobIds : pc[v] = "set_compiled"

\* C16: torch.compile of the mesh model runs to its end at most once in the
\* life of the process, and the _compiled flag, once set, stays set.
C16_CompileAtMostOnce ==
    [][/\ \A w \in JobIds :
             pc[w] = "compile" /\ pc'[w] = "set_compiled" => ~CompileDone
       /\ compiled => compiled']_vars

\* Total memory values, in KiB: none, one GiB, around the threshold, twice it.
RamValues == RamTotals \cup {0, GiB, 2 * MIN_RAM_KEEP_LOADED * GiB}

\* The policy the claim describes for an override and a total memory.
PolicyExpected(env, ramKiB) ==
    CASE env = "keep_loaded" -> "keep_loaded"
      [] env = "swap" -> "swap"
      [] OTHER -> IF ramKiB < MIN_RAM_KEEP_LOADED * GiB THEN "swap"
                  ELSE "keep_loaded"

C18_ResultOnlyWhenDone ==
    [][\A job_id \in JOBS :
          LET r == get_result(job_id) IN
          /\ r.code = 200 =>
                /\ job[job_id].status = "done"
                /\ r.body.result = job[job_id].result /\ r.body.result # None
                /\ r.body.timings = job[job_id].timings /\ r.body.timings # None
                /\ job'[job_id].status = "done"
                /\ job'[job_id].result = job[job_id].result
                /\ job'[job_id].timings = job[job_id].timings
          /\ job[job_id].status \in {"queued", "running", "failed"} =>
                /\ r.code = 202
                /\ DOMAIN r.body = {"error", "status"}
                /\ r.body.status = job[job_id].status]_vars

\* C18: a done job is still stored, and the result query answers with its
\* GLB path and its timings.
C18_Witness ==
    \E job_id \in JOBS :
       /\ get_result(job_id).code = 200
       /\ get_result(job_id).body.result = ResultOf(job_id, job[job_id].type)
       /\ get_result(job_id).body.timings # <<>>
       /\ pc[job_id] = "finished"

\* The place of a job in the order of submission.
SubmittedAt(job_id) == CHOOSE i \in 1..Len(order) : order[i] = job_id

\* The stored jobs a listing with this status filter chooses from.
Matching(status) ==
    {w \in JOBS : status = NoneStr \/ job[w].status = status}

\* C19: in every listing a job submitted later comes before a job submitted
\* earlier, and every job the limit cut off was submitted before every job
\* the listing kept.
C19_ListingMostRecentFirst ==
    \A status \in ListStatuses, limit \in ListLimits :
       LET L == list_jobs(status, limit) IN
       /\ \A i \in 1..Len(L), j \in 1..Len(L) :
             i < j => SubmittedAt(L[i]) > SubmittedAt(L[j])
       /\ \A w \in Matching(status) :
             (\A k \in 1..Len(L) : L[k] # w) =>
                \A k \in 1..Len(L) : SubmittedAt(L[k]) > SubmittedAt(w)

\* The resolved path is a file or directory below the output directory of
\* job_id, itself below OUTPUT_DIR.
InsideJobDir(r, job_id) ==
    r.up = 0 /\ Len(r.path) >= 2 /\ r.path[1] = job_id

\* C20: for every job identifier and every filename a download request
\* carries, the path the handler looks up is strictly inside that job's output
\* directory: not the directory itself, not OUTPUT_DIR, nothing above it.
C20_DownloadStaysInsideJobDir ==
    resp.op = "download" =>
       InsideJobDir(realpath(download_path(resp.input[1], resp.input[2])),
                    resp.input[1])

\* C21: a status query, a result query and a delete request for an
\* identifier that is not in the job store answer not-found; the delete goes
\* no further than its test, and the step that answers it leaves the job
\* store, every job dict, the models, the workers and the output tree as they
\* were.
C21_NotFoundChangesNothing ==
    [][/\ \A job_id \in JobIds \ JOBS :
             /\ get_status(job_id).code = 404
             /\ get_result(job_id).code = 404
             /\ pendingDel'[job_id] <= pendingDel[job_id]
       /\ resp'.op = "delete" /\ resp'.code = 404 =>
             /\ resp'.job_id \notin JOBS
             /\ UNCHANGED <<storeVars, pipeVars, workerVars, fsVars>>]_vars

\* C21: a delete request for a job deleted before has just been answered
\* not-found, while the job's worker runs and has made its directory again.
C21_Witness ==
    /\ resp.op = "delete" /\ resp.code = 404
    /\ resp.job_id \in Allocated /\ resp.job_id \notin JOBS
    /\ resp.job_id \in Active /\ resp.job_id \in dirs

\* C22: under fair scheduling of the workers, every job that was stored
\* reaches status done or failed.
C22_EveryJobTerminates ==
    \A w \in JobIds :
       (w \in Allocated) ~>
          (w \in Allocated /\ job[w].status \in {"done", "failed"})

\* C23: in every state, wherever the workers are (inside a model load or an
\* engine call that never returns included), a valid text or image
\* submission can be taken and its worker started while the process has
\* identifiers left, a submit handler that started a worker can return its
\* identifier, and a status query for any identifier has an answer.
C23_HandlersNeverWait ==
    /\ Cardinality(Allocated) < MaxJobs =>
          /\ ENABLED SubmitText(<<"a">>, "balanced")
          /\ ENABLED SubmitImage("a.png", "valid", "balanced")
    /\ \A job_id \in JobIds :
          /\ returning[job_id] > 0 => ENABLED SubmitReturn(job_id)
          /\ get_status(job_id).code \in {200, 404}

\* C23: one worker is inside a model load, the handler of the job submitted
\* meanwhile has not returned yet, and its worker has not started to run.
C23_Witness ==
    \E w \in JobIds, v \in JobIds :
       /\ pc[w] \in {"flux_from_pretrained", "trellis_from_pretrained"}
       /\ job[w].status = "running"
       /\ pc[v] = "lookup" /\ returning[v] > 0
       /\ SubmittedAt(v) > SubmittedAt(w)

\* C24: under swap, with jobs run one after another, once a text job has
\* failed the two models are still never both resident, during every later
\* job and after it.
C24_FailureKeepsSwapExclusive ==
    /\ memory_mode = "swap"
    /\ \E v \in Allocated :
          job[v].type = "text" /\ job[v].status = "failed" /\ pc[v] = "finished"
    => ~BothResident

\* C25: under swap, whatever the interleaving, a worker that is at its image
\* generation call holds a non-null handle of the image model and the image
\* model is resident, and a worker at its mesh generation call holds a
\* non-null handle of the mesh model and the mesh model is resident.
C25_ModelResidentWhenUsed ==
    memory_mode = "swap" =>
       \A w \in JobIds :
          /\ pc[w] = "flux_call" =>
                local[w].handle # None /\ flux_pipe # None
          /\ pc[w] = "trellis_run" =>
                local[w].handle # None /\ trellis_pipe # None

\* C26: in every reachable state of a job record, result is present only if
\* the status is done, and error is present only if the status is failed.
C26_ResultOnlyDoneErrorOnlyFailed ==
    \A w \in Allocated :
       /\ job[w].result # None => job[w].status = "done"
       /\ job[w].error # NoneStr => job[w].status = "failed"

\* C27: in every state, a status query that answers with status done answers
\* with stage complete, and one that answers with status failed answers with
\* stage error.
C27_TerminalStatusHasTerminalStage ==
    \A job_id \in JobIds :
       LET r == get_status(job_id) IN
       r.code = 200 =>
          /\ r.body.status = "done" => r.body.stage = "complete"
          /\ r.body.status = "failed" => r.body.stage = "error"

\* The names of the measurements in a timings dict.
Measured(timings) == {timings[i] : i \in 1..Len(timings)}

\* The measurements image_to_3d takes.
MeshMeasurements == {"trellis_load", "trellis_generate", "export_glb"}

\* C28: a job whose status is done has a result with a non-empty GLB
\* reference and timings with at least one measurement; for a text job the
\* timings hold the image generation measurement and every mesh measurement,
\* and the result references the generated image.
C28_DoneHasResultAndTimings ==
    \A w \in Allocated :
       job[w].status = "done" =>
          /\ job[w].result # None
          /\ "glb" \in DOMAIN job[w].result
          /\ Len(job[w].result.glb) > 0
          /\ Len(job[w].timings) >= 1
          /\ job[w].type = "text" =>
                /\ {"flux_generate"} \cup MeshMeasurements
                      \subseteq Measured(job[w].timings)
                /\ "image" \in DOMAIN job[w].result
                /\ Len(job[w].result.image) > 0

\* C28: a text job and an image job are both done.
C28_Witness ==
    \E w \in Allocated, v \in Allocated :
       /\ job[w].type = "text" /\ job[w].status = "done"
       /\ job[v].type = "image" /\ job[v].status = "done"

\* The names a worker has logged so far.
Called(w) == {calls[w][i] : i \in 1..Len(calls[w])}

AcceptedLimits == {-2, -1, 0, 1, 2, 50, 100}

\* C30: for every accepted limit, every status filter and every store, a
\* listing returns no more jobs than the limit asks for (none when the limit
\* is zero or negative) and no more than 100.
C30_ListingBoundedByLimit ==
    \A status \in ListStatuses, limit \in AcceptedLimits :
       LET total == Len(list_jobs(status, limit)) IN
       /\ total <= (IF limit > 0 THEN limit ELSE 0)
       /\ total <= 100

\* C31: whatever the interleaving, two workers are never both past the
\* residency test of the same model and about to perform its load: a model
\* that was found unresident is loaded by one worker only.
C31_LoadAtMostOnce ==
    \A w \in JobIds, v \in JobIds :
       w # v =>
          /\ ~(pc[w] = "flux_from_pretrained" /\ pc[v] = "flux_from_pretrained")
          /\ ~(pc[w] = "trellis_from_pretrained"
                  /\ pc[v] = "trellis_from_pretrained")

\* C32: of the delete requests in flight for a job, two at once included,
\* the one that ends while the job is still stored reports the deletion, and
\* one that ends after the job was removed reports not-found: no delete
\* request ends in an unhandled error.
C32_ConcurrentDeletesOneWins ==
    [][\A job_id \in JobIds :
          pendingDel'[job_id] < pendingDel[job_id] =>
             resp'.code = (IF job_id \in JOBS THEN 200 ELSE 404)]_vars

\* C33: once torch.compile has succeeded (the _compiled flag is set), every
\* job whose preset asks for it that is at its mesh generation call holds a
\* compiled mesh model, after any sequence of jobs run one after another,
\* releases and reloads of the mesh model included.
C33_CompiledStaysCompiled ==
    \A w \in JobIds :
       /\ compiled
       /\ pc[w] = "trellis_run"
       /\ use_compile(job[w].quality)
       /\ local[w].handle # None
       => local[w].handle.compiled

\* C34: the stage of a text job names the step its worker performs: while the
\* worker is inside the load of the image model the stage is loading_flux, and
\* the stage is generating_image only once that load has returned.
C34_StageNamesStep ==
    \A w \in Allocated :
       job[w].type = "text" /\ InLoadFlux(w) => job[w].stage = "loading_flux"

====
